---- MODULE Spec2Model ----
(***************************************************************************)
(* A model of the protobuf code generator front end:                       *)
(*   - the Codegen builder and Codegen::run (protobuf-codegen),            *)
(*   - remove_path_prefix (protobuf-codegen),                              *)
(*   - the parse-and-typecheck binary (protobuf-parse),                    *)
(*   - the pure parsing pipeline both of them call, whose code is outside  *)
(*     the two source files and is modelled from the specification.        *)
(***************************************************************************)
EXTENDS Integers, Sequences, FiniteSets, TLC

(***************************************************************************)
(* Bounds of the model.                                                    *)
(***************************************************************************)
MaxIncludes == 2
MaxInputs == 2
MaxExtraArgs == 1
MaxImports == 3
MaxArgs == 3
MaxPathLen == 5
MaxPrefixLen == 3
MaxFiles == 4

(***************************************************************************)
(* Sequence helpers.                                                       *)
(***************************************************************************)
Range(s) == {s[i] : i \in 1..Len(s)}

InSeq(x, s) == \E i \in 1..Len(s) : s[i] = x

SeqsUpTo(S, n) == UNION {[1..k -> S] : k \in 0..n}

DistinctSeqs(S, lo, hi) ==
    {s \in UNION {[1..k -> S] : k \in lo..hi} :
        \A i, j \in 1..Len(s) : i # j => s[i] # s[j]}

(***************************************************************************)
(* The file system the compiler reads.  A file lives in a directory under  *)
(* a relative name; its content is its import statements and, for the      *)
(* later stages, the first defect a stage finds in it.                     *)
(***************************************************************************)
Dirs == {"d1", "d2"}

Names == {"a", "b", "c"}

\* "m" names a file that exists in no directory.
ImportPaths == Names \cup {"m"}

NoDir == "none"

Import(p, k) == [path |-> p, kind |-> k]

File(imps, d) == [exists |-> TRUE, imports |-> imps, defect |-> d]

NoFile == [exists |-> FALSE, imports |-> <<>>, defect |-> "none"]

EmptyDir == [n \in ImportPaths |-> NoFile]

VARIABLES
    cg,          \* the Codegen object
    last_sel,    \* history: the most recent pure()/protoc() call, or "none"
    incl_args,   \* history: every include argument, in call order
    input_args,  \* history: every input argument, in call order
    fs,          \* the file system: fs[dir][name]
    run,         \* the progress and outcome of Codegen::run
    bin,         \* the parse-and-typecheck binary: its arguments and progress
    rp,          \* a call of remove_path_prefix: its arguments and result
    pl           \* the stages of one pure compilation over its files

vars == <<cg, last_sel, incl_args, input_args, fs, run, bin, rp, pl>>

(***************************************************************************)
(* The pure pipeline (specification sections 4.3 to 4.6, 6 and 7).         *)
(*                                                                         *)
(* A file is identified by <<directory, name>>.  The walk state is         *)
(*   done : the files finished so far, in the order they finished,         *)
(*   err  : "none", or the error that stopped the walk.                    *)
(***************************************************************************)
WalkStart == [done |-> <<>>, err |-> "none"]

Fail(st, e) == [st EXCEPT !.err = e]

HasFile(d, n, files) ==
    /\ d \in DOMAIN files
    /\ n \in DOMAIN files[d]
    /\ files[d][n].exists

\* The include directories are tried in declared order; the first that holds
\* the name wins.
RECURSIVE ResolveFrom(_, _, _, _)
ResolveFrom(name, includes, i, files) ==
    IF i > Len(includes) THEN NoDir
    ELSE IF HasFile(includes[i], name, files) THEN includes[i]
    ELSE ResolveFrom(name, includes, i + 1, files)

ResolveDir(name, includes, files) == ResolveFrom(name, includes, 1, files)

\* Lexing and parsing of one file: a syntax error is found before any of the
\* file's imports is looked at.
ParseFile(f, files) ==
    LET c == files[f[1]][f[2]]
    IN  IF c.defect = "syntax" THEN [ok |-> FALSE, imports |-> <<>>]
        ELSE [ok |-> TRUE, imports |-> c.imports]

\* An edge back to a file that is still open closes a cycle.
ClosesCycle(f, stack) == InSeq(f, stack)

RECURSIVE AddFile(_, _, _, _, _)
RECURSIVE AddImports(_, _, _, _, _, _)

\* Resolve file f and, recursively, its imports; a file already finished is
\* not parsed again.
AddFile(f, stack, st, includes, files) ==
    IF st.err # "none" THEN st
    ELSE IF ClosesCycle(f, stack) THEN Fail(st, "Cycle")
    ELSE IF InSeq(f, st.done) THEN st
    ELSE LET parsed == ParseFile(f, files)
         IN  IF ~parsed.ok THEN Fail(st, "SyntaxError")
             ELSE LET st2 == AddImports(parsed.imports, 1, Append(stack, f),
                                        st, includes, files)
                  IN  IF st2.err # "none" THEN st2
                      ELSE [st2 EXCEPT !.done = Append(@, f)]

AddImports(imps, i, stack, st, includes, files) ==
    IF i > Len(imps) \/ st.err # "none" THEN st
    ELSE LET d == ResolveDir(imps[i].path, includes, files)
         IN  IF d = NoDir
             THEN IF imps[i].kind = "weak"
                  THEN AddImports(imps, i + 1, stack, st, includes, files)
                  ELSE Fail(st, "NotFound")
             ELSE AddImports(imps, i + 1, stack,
                             AddFile(<<d, imps[i].path>>, stack, st, includes, files),
                             includes, files)

\* An input is read from its own path, which must lie under an include
\* directory: its name relative to that directory is what it is known by.
InputReadable(inp, includes, files) ==
    /\ InSeq(inp.dir, includes)
    /\ HasFile(inp.dir, inp.name, files)

RECURSIVE AddInputs(_, _, _, _, _)
AddInputs(inputs, i, st, includes, files) ==
    IF i > Len(inputs) \/ st.err # "none" THEN st
    ELSE IF ~InputReadable(inputs[i], includes, files) THEN Fail(st, "IoError")
    ELSE AddInputs(inputs, i + 1,
                   AddFile(<<inputs[i].dir, inputs[i].name>>, <<>>, st, includes, files),
                   includes, files)

\* The stages after import resolution each fail the whole compilation on the
\* first file that has a defect of their kind.
HasDefect(done, d, files) == \E i \in 1..Len(done) : files[done[i][1]][done[i][2]].defect = d

ParseErr(e) == [ok |-> FALSE, err |-> e, descs |-> <<>>, rel |-> <<>>, parser |-> "none"]

PureParseAndTypecheck(includes, inputs, files) ==
    LET st == AddInputs(inputs, 1, WalkStart, includes, files)
    IN  IF st.err # "none" THEN ParseErr(st.err)
        ELSE IF HasDefect(st.done, "unresolved", files) THEN ParseErr("Unresolved")
        ELSE IF HasDefect(st.done, "invalid", files) THEN ParseErr("ValidationError")
        ELSE [ok |-> TRUE, err |-> "none", descs |-> st.done,
              rel |-> [i \in 1..Len(inputs) |-> inputs[i].name],
              parser |-> "pure"]

(***************************************************************************)
(* The external-binary path (specification section 6): the protoc process  *)
(* at the configured path, or the one on $PATH, is run with the include    *)
(* and input arguments and the extra arguments.                            *)
(***************************************************************************)
NoProtoc == "none"

ProtocPaths == {"p1", "p2"}

\* The paths at which a protoc binary can be started.
RunnableProtoc == {NoProtoc, "p1"}

ExtraArgs == {"--ok", "--bad"}

\* The flags protoc accepts.
AcceptedArgs == {"--ok"}

ProtocParseAndTypecheck(c, files) ==
    IF c.protoc \notin RunnableProtoc THEN ParseErr("ProtocSpawn")
    ELSE IF ~(Range(c.extra_args) \subseteq AcceptedArgs) THEN ParseErr("ProtocExit")
    ELSE LET r == PureParseAndTypecheck(c.includes, c.inputs, files)
         IN  IF r.ok THEN [r EXCEPT !.parser = "protoc"] ELSE ParseErr("ProtocExit")

(***************************************************************************)
(* The code generator (crate::gen_and_write): it receives the descriptors, *)
(* the parser's name, the relative paths, the output directory and the     *)
(* customization, and fails when it cannot write to the output directory.  *)
(***************************************************************************)
OutDirArgs == {"ro"}

WritableDirs == {""}

CustomizeArgs == {"custom"}

NoGen == [called |-> FALSE, descs |-> <<>>, parser |-> "none", rel |-> <<>>,
          out_dir |-> "", customize |-> "default"]

GenCall(descs, parser, rel, out_dir, customize) ==
    [called |-> TRUE, descs |-> descs, parser |-> parser, rel |-> rel,
     out_dir |-> out_dir, customize |-> customize]

GenAndWrite(g) == IF g.out_dir \in WritableDirs THEN "Ok" ELSE "GenError"

(***************************************************************************)
(* Codegen: the builder.                                                   *)
(***************************************************************************)
WhichParser == {"Pure", "Protoc"}

WhichParserDefault == "Protoc"

CodegenNew ==
    [which_parser |-> WhichParserDefault,
     out_dir |-> "",
     includes |-> <<>>,
     inputs |-> <<>>,
     customize |-> "default",
     protoc |-> NoProtoc,
     extra_args |-> <<>>]

InputPath(d, n) == [dir |-> d, name |-> n]

InputArgs == {InputPath("d1", "a"), InputPath("d2", "b")}

\* No Codegen object is in use.
RunOff == [pc |-> "off", called |-> <<>>, parse |-> ParseErr("none"),
           gen |-> NoGen, result |-> "none"]

RunIdle == [pc |-> "idle", called |-> <<>>, parse |-> ParseErr("none"),
            gen |-> NoGen, result |-> "none"]

\* run() borrows the object: no builder call happens between its two steps.
\* A builder call leaves no finished run behind it.
CanBuild == run.pc \in {"idle", "done"}

PureOp(c) == [c EXCEPT !.which_parser = "Pure"]

ProtocOp(c) == [c EXCEPT !.which_parser = "Protoc"]

OutDirOp(c, d) == [c EXCEPT !.out_dir = d]

\* A bug: a directory already in the list is not added again.
IncludeOpDedup(c, d) ==
    IF InSeq(d, c.includes) THEN c ELSE [c EXCEPT !.includes = Append(@, d)]

IncludeOp(c, d) == [c EXCEPT !.includes = Append(@, d)]

RECURSIVE IncludesOp(_, _)
IncludesOp(c, ds) ==
    IF ds = <<>> THEN c ELSE IncludesOp(IncludeOp(c, Head(ds)), Tail(ds))

InputOp(c, i) == [c EXCEPT !.inputs = Append(@, i)]

RECURSIVE InputsOp(_, _)
InputsOp(c, is) ==
    IF is = <<>> THEN c ELSE InputsOp(InputOp(c, Head(is)), Tail(is))

ProtocPathOp(c, p) == [c EXCEPT !.protoc = p]

CustomizeOp(c, k) == [c EXCEPT !.customize = k]

ExtraArgOp(c, a) == [c EXCEPT !.extra_args = Append(@, a)]

Pure ==
    /\ CanBuild
    /\ cg' = PureOp(cg)
    /\ last_sel' = "Pure"
    /\ run' = RunIdle
    /\ UNCHANGED <<incl_args, input_args, fs, bin, rp, pl>>

Protoc ==
    /\ CanBuild
    /\ cg' = ProtocOp(cg)
    /\ last_sel' = "Protoc"
    /\ run' = RunIdle
    /\ UNCHANGED <<incl_args, input_args, fs, bin, rp, pl>>

OutDir ==
    /\ CanBuild
    /\ \E d \in OutDirArgs : cg' = OutDirOp(cg, d)
    /\ run' = RunIdle
    /\ UNCHANGED <<last_sel, incl_args, input_args, fs, bin, rp, pl>>

Include ==
    /\ CanBuild
    /\ Len(cg.includes) < MaxIncludes
    /\ \E d \in Dirs :
        /\ cg' = IncludeOp(cg, d)
        /\ incl_args' = Append(incl_args, d)
    /\ run' = RunIdle
    /\ UNCHANGED <<last_sel, input_args, fs, bin, rp, pl>>

Includes ==
    /\ CanBuild
    /\ \E ds \in SeqsUpTo(Dirs, MaxIncludes - Len(cg.includes)) :
        /\ cg' = IncludesOp(cg, ds)
        /\ incl_args' = incl_args \o ds
    /\ run' = RunIdle
    /\ UNCHANGED <<last_sel, input_args, fs, bin, rp, pl>>

Input ==
    /\ CanBuild
    /\ Len(cg.inputs) < MaxInputs
    /\ \E i \in InputArgs :
        /\ cg' = InputOp(cg, i)
        /\ input_args' = Append(input_args, i)
    /\ run' = RunIdle
    /\ UNCHANGED <<last_sel, incl_args, fs, bin, rp, pl>>

Inputs ==
    /\ CanBuild
    /\ \E is \in SeqsUpTo(InputArgs, MaxInputs - Len(cg.inputs)) :
        /\ cg' = InputsOp(cg, is)
        /\ input_args' = input_args \o is
    /\ run' = RunIdle
    /\ UNCHANGED <<last_sel, incl_args, fs, bin, rp, pl>>

ProtocPath ==
    /\ CanBuild
    /\ \E p \in ProtocPaths : cg' = ProtocPathOp(cg, p)
    /\ run' = RunIdle
    /\ UNCHANGED <<last_sel, incl_args, input_args, fs, bin, rp, pl>>

Customize ==
    /\ CanBuild
    /\ \E k \in CustomizeArgs : cg' = CustomizeOp(cg, k)
    /\ run' = RunIdle
    /\ UNCHANGED <<last_sel, incl_args, input_args, fs, bin, rp, pl>>

ExtraArg ==
    /\ CanBuild
    /\ Len(cg.extra_args) < MaxExtraArgs
    /\ \E a \in ExtraArgs : cg' = ExtraArgOp(cg, a)
    /\ run' = RunIdle
    /\ UNCHANGED <<last_sel, incl_args, input_args, fs, bin, rp, pl>>

(***************************************************************************)
(* Codegen::run.  Its first step calls the selected parser; an error       *)
(* returns at once (the ? operator).  Its second step hands the parser's   *)
(* result to the code generator.                                           *)
(***************************************************************************)
\* The name of the parse_and_typecheck path of a parser.
ParserPath(w) == IF w = "Pure" THEN "pure" ELSE "protoc"

\* A bug: the two arms of the match exchanged.
ParseAndTypecheckSwapped(c, files) ==
    CASE c.which_parser = "Pure" ->
            [called |-> <<"protoc">>, res |-> ProtocParseAndTypecheck(c, files)]
      [] c.which_parser = "Protoc" ->
            [called |-> <<"pure">>,
             res |-> PureParseAndTypecheck(c.includes, c.inputs, files)]

\* A bug: the configured protoc binary is looked for whichever parser is
\* selected.
ParseAndTypecheckProbing(c, files) ==
    IF c.protoc \notin RunnableProtoc
    THEN [called |-> <<ParserPath(c.which_parser)>>, res |-> ParseErr("ProtocSpawn")]
    ELSE CASE c.which_parser = "Protoc" ->
                [called |-> <<"protoc">>, res |-> ProtocParseAndTypecheck(c, files)]
           [] c.which_parser = "Pure" ->
                [called |-> <<"pure">>,
                 res |-> PureParseAndTypecheck(c.includes, c.inputs, files)]

ParseAndTypecheck(c, files) ==
    CASE c.which_parser = "Protoc" ->
            [called |-> <<"protoc">>, res |-> ProtocParseAndTypecheck(c, files)]
      [] c.which_parser = "Pure" ->
            [called |-> <<"pure">>,
             res |-> PureParseAndTypecheck(c.includes, c.inputs, files)]

\* A bug: the parser's error is not returned (the ? operator left out).
AfterParseIgnoringError(p) ==
    [pc |-> "parsed", called |-> p.called, parse |-> p.res,
     gen |-> NoGen, result |-> "none"]

\* The state of run() after the parser returned p.
AfterParse(p) ==
    IF p.res.ok
    THEN [pc |-> "parsed", called |-> p.called, parse |-> p.res,
          gen |-> NoGen, result |-> "none"]
    ELSE [pc |-> "done", called |-> p.called, parse |-> p.res,
          gen |-> NoGen, result |-> p.res.err]

RECURSIVE Reverse(_)
Reverse(q) == IF q = <<>> THEN <<>> ELSE Append(Reverse(Tail(q)), Head(q))

\* A bug: the descriptors handed over in the opposite order.
GenArgsReversed(c, parsed) ==
    GenCall(Reverse(parsed.descs), parsed.parser, parsed.rel, c.out_dir, c.customize)

\* What run() passes to gen_and_write.
GenArgs(c, parsed) ==
    GenCall(parsed.descs, parsed.parser, parsed.rel, c.out_dir, c.customize)

\* The state of run() after gen_and_write returned.
AfterGen(c, r) ==
    LET g == GenArgs(c, r.parse)
    IN  [r EXCEPT !.pc = "done", !.gen = g, !.result = GenAndWrite(g)]

\* run() from its call to its return.
RunResult(c, files) ==
    LET r == AfterParse(ParseAndTypecheck(c, files))
    IN  IF r.pc = "done" THEN r ELSE AfterGen(c, r)

RunParse ==
    /\ run.pc \in {"idle", "done"}
    /\ run' = AfterParse(ParseAndTypecheck(cg, fs))
    /\ UNCHANGED <<cg, last_sel, incl_args, input_args, fs, bin, rp, pl>>

RunGen ==
    /\ run.pc = "parsed"
    /\ run' = AfterGen(cg, run)
    /\ UNCHANGED <<cg, last_sel, incl_args, input_args, fs, bin, rp, pl>>

(***************************************************************************)
(* The parse-and-typecheck binary.  A command-line argument is a path: a   *)
(* file <<dir, name>>, or a directory (its name is empty).                 *)
(***************************************************************************)
BinArgs == {InputPath("d1", "a"), InputPath("d2", "b"),
            InputPath("d1", ""), InputPath("d2", "")}

\* The directory a path names, when it is given as an include directory.
AsDir(p) == IF p.name = "" THEN p.dir ELSE NoDir

BinOff == [pc |-> "off", args |-> <<>>, stderr |-> <<>>, code |-> -1,
           asserted |-> "none", parse_in |-> <<>>, parse_inc |-> <<>>,
           called |-> FALSE, stdout |-> <<>>]

BinStart(args) == [BinOff EXCEPT !.pc = "start", !.args = args]

\* A bug: only too few arguments are rejected.
ArgsRejectedTooFew(args) == Len(args) < 2

\* if args.len() != 2 { usage; exit(1) }
ArgsRejected(args) == Len(args) # 2

\* args.split_at(1); it panics when the slice is empty.
SplitAt(args, mid) ==
    IF mid > Len(args) THEN [ok |-> FALSE, left |-> <<>>, right |-> <<>>]
    ELSE [ok |-> TRUE,
          left |-> [i \in 1..mid |-> args[i]],
          right |-> [i \in 1..(Len(args) - mid) |-> args[mid + i]]]

\* The call pure::parse_and_typecheck(includes, input) of main.
MainCall(input, includes, files) ==
    [parse_in |-> input, parse_inc |-> includes,
     res |-> PureParseAndTypecheck([i \in 1..Len(includes) |-> AsDir(includes[i])],
                                   input, files)]

PanicCode == 101

MainCheck ==
    /\ bin.pc = "start"
    /\ bin' = IF ArgsRejected(bin.args)
              THEN [bin EXCEPT !.pc = "exited", !.stderr = <<"usage">>, !.code = 1]
              ELSE [bin EXCEPT !.pc = "checked", !.stderr = <<"not public">>]
    /\ UNCHANGED <<cg, last_sel, incl_args, input_args, fs, run, rp, pl>>

\* A bug: a failed parse is taken for an empty result (no expect).
MainParseNoExpect ==
    /\ bin.pc = "checked"
    /\ LET sp == SplitAt(bin.args, 1)
           t == MainCall(sp.left, sp.right, fs)
       IN  bin' = [bin EXCEPT !.pc = "exited", !.asserted = "held",
                              !.called = TRUE,
                              !.parse_in = t.parse_in, !.parse_inc = t.parse_inc,
                              !.stdout = t.res.descs, !.code = 0]
    /\ UNCHANGED <<cg, last_sel, incl_args, input_args, fs, run, rp, pl>>

MainParse ==
    /\ bin.pc = "checked"
    /\ LET sp == SplitAt(bin.args, 1)
           t == MainCall(sp.left, sp.right, fs)
       IN  bin' =
             IF ~(Len(bin.args) >= 2)
             THEN [bin EXCEPT !.pc = "exited", !.asserted = "failed",
                              !.code = PanicCode]
             ELSE IF ~sp.ok
             THEN [bin EXCEPT !.pc = "exited", !.asserted = "held",
                              !.code = PanicCode]
             ELSE IF ~t.res.ok
             THEN [bin EXCEPT !.pc = "exited", !.asserted = "held",
                              !.called = TRUE,
                              !.parse_in = t.parse_in, !.parse_inc = t.parse_inc,
                              !.stderr = Append(@, t.res.err), !.code = PanicCode]
             ELSE [bin EXCEPT !.pc = "exited", !.asserted = "held",
                              !.called = TRUE,
                              !.parse_in = t.parse_in, !.parse_inc = t.parse_inc,
                              !.stdout = t.res.descs, !.code = 0]
    /\ UNCHANGED <<cg, last_sel, incl_args, input_args, fs, run, rp, pl>>

(***************************************************************************)
(* Paths (std::path::Path on Unix) and remove_path_prefix.  A path is its  *)
(* text, a sequence of characters; its components are parsed from the text *)
(* as Path::components does: a leading "/" is the root, a leading "." is   *)
(* the current directory, empty segments and later "." segments are        *)
(* skipped, ".." is the parent directory.                                  *)
(***************************************************************************)
Sep == "/"

PathChars == {"/", ".", "x"}

RECURSIVE SegEnd(_, _)
\* The index of the separator that ends the segment starting at i, or
\* Len(p) + 1.
SegEnd(p, i) ==
    IF i > Len(p) \/ p[i] = Sep THEN i ELSE SegEnd(p, i + 1)

HasRoot(p) == Len(p) >= 1 /\ p[1] = Sep

IncludeCurDir(p) ==
    /\ ~HasRoot(p)
    /\ Len(p) >= 1
    /\ p[1] = "."
    /\ (Len(p) = 1 \/ p[2] = Sep)

Comp(k, p, i, j) == [kind |-> k, text |-> SubSeq(p, i, j), from |-> i, to |-> j]

SegKind(seg) ==
    IF seg = <<>> \/ seg = <<".">> THEN "skip"
    ELSE IF seg = <<".", ".">> THEN "ParentDir"
    ELSE "Normal"

RECURSIVE Body(_, _)
Body(p, i) ==
    IF i > Len(p) THEN <<>>
    ELSE LET j == SegEnd(p, i)
             k == SegKind(SubSeq(p, i, j - 1))
         IN  IF k = "skip" THEN Body(p, j + 1)
             ELSE <<Comp(k, p, i, j - 1)>> \o Body(p, j + 1)

Components(p) ==
    IF HasRoot(p) THEN <<Comp("RootDir", p, 1, 1)>> \o Body(p, 2)
    ELSE IF IncludeCurDir(p) THEN <<Comp("CurDir", p, 1, 1)>> \o Body(p, 2)
    ELSE Body(p, 1)

SameComp(a, b) == a.kind = b.kind /\ a.text = b.text

None == [some |-> FALSE, text |-> <<>>]

Some(t) == [some |-> TRUE, text |-> t]

\* Path::strip_prefix: the text left after the components of base, when
\* they lead the components of p.
StripPrefix(p, base) ==
    LET pc == Components(p)
        bc == Components(base)
    IN  IF /\ Len(bc) <= Len(pc)
           /\ \A i \in 1..Len(bc) : SameComp(pc[i], bc[i])
        THEN IF Len(bc) = Len(pc) THEN Some(<<>>)
             ELSE Some(SubSeq(p, pc[Len(bc) + 1].from, pc[Len(pc)].to))
        ELSE None

UnwrapOr(r, d) == IF r.some THEN r.text ELSE d

\* A bug: the leading "." of the prefix is kept.
RemovePathPrefixKeepingDot(path, prefix) ==
    LET path1 == UnwrapOr(StripPrefix(path, <<".">>), path)
    IN  StripPrefix(path1, prefix)

RemovePathPrefix(path, prefix) ==
    LET path1 == UnwrapOr(StripPrefix(path, <<".">>), path)
        prefix1 == UnwrapOr(StripPrefix(prefix, <<".">>), prefix)
    IN  StripPrefix(path1, prefix1)

RpOff == [pc |-> "off", path |-> <<>>, prefix |-> <<>>, result |-> None]

RemovePathPrefixCall ==
    /\ rp.pc = "call"
    /\ rp' = [rp EXCEPT !.pc = "ret", !.result = RemovePathPrefix(rp.path, rp.prefix)]
    /\ UNCHANGED <<cg, last_sel, incl_args, input_args, fs, run, bin, pl>>

(***************************************************************************)
(* The stages of one pure compilation (specification sections 2 and 5).    *)
(* Each file of the dependency closure is lexed and parsed by a task of    *)
(* its own; the tasks interleave freely.  The binder then enters every     *)
(* file's symbols into the one symbol table and resolves every file's      *)
(* references; validation and descriptor building follow, file by file.    *)
(* Any failure aborts the compilation.                                     *)
(***************************************************************************)
PlFiles == 1..MaxFiles

PlOff == [stage |-> "off", task |-> [f \in PlFiles |-> "pending"], table |-> {},
          resolved |-> {}, validated |-> {}, built |-> {}]

PlStart == [PlOff EXCEPT !.stage = "parsing"]

\* A bug: binding starts as soon as one file has been parsed.
SomeParsed(task) == \E f \in PlFiles : task[f] = "parsed"

\* The join before binding: every file of the closure has been parsed.
AllParsed(task) == \A f \in PlFiles : task[f] = "parsed"

\* The binder has entered every file's symbols.
ScopeTreeBuilt(p) == p.table = PlFiles

BinderFinished(p) == p.stage \in {"validating", "building", "done"}

PlOthers == <<cg, last_sel, incl_args, input_args, fs, run, bin, rp>>

Lex(f) ==
    /\ pl.stage = "parsing"
    /\ pl.task[f] = "pending"
    /\ \/ pl' = [pl EXCEPT !.task[f] = "lexed"]
       \/ pl' = [pl EXCEPT !.task[f] = "error", !.stage = "failed"]
    /\ UNCHANGED PlOthers

Parse(f) ==
    /\ pl.stage = "parsing"
    /\ pl.task[f] = "lexed"
    /\ \/ pl' = [pl EXCEPT !.task[f] = "parsed"]
       \/ pl' = [pl EXCEPT !.task[f] = "error", !.stage = "failed"]
    /\ UNCHANGED PlOthers

StartBinding ==
    /\ pl.stage = "parsing"
    /\ AllParsed(pl.task)
    /\ pl' = [pl EXCEPT !.stage = "binding"]
    /\ UNCHANGED PlOthers

Declare(f) ==
    /\ pl.stage = "binding"
    /\ f \notin pl.table
    /\ pl' = [pl EXCEPT !.table = @ \cup {f}]
    /\ UNCHANGED PlOthers

Resolve(f) ==
    /\ pl.stage = "binding"
    /\ ScopeTreeBuilt(pl)
    /\ f \notin pl.resolved
    /\ \/ pl' = [pl EXCEPT !.resolved = @ \cup {f}]
       \/ pl' = [pl EXCEPT !.stage = "failed"]
    /\ UNCHANGED PlOthers

FinishBinding ==
    /\ pl.stage = "binding"
    /\ pl.resolved = PlFiles
    /\ pl' = [pl EXCEPT !.stage = "validating"]
    /\ UNCHANGED PlOthers

Validate(f) ==
    /\ pl.stage = "validating"
    /\ f \notin pl.validated
    /\ \A g \in PlFiles : g < f => g \in pl.validated
    /\ \/ pl' = [pl EXCEPT !.validated = @ \cup {f}]
       \/ pl' = [pl EXCEPT !.stage = "failed"]
    /\ UNCHANGED PlOthers

StartBuilding ==
    /\ pl.stage = "validating"
    /\ pl.validated = PlFiles
    /\ pl' = [pl EXCEPT !.stage = "building"]
    /\ UNCHANGED PlOthers

Build(f) ==
    /\ pl.stage = "building"
    /\ f \notin pl.built
    /\ \A g \in PlFiles : g < f => g \in pl.built
    /\ pl' = [pl EXCEPT !.built = @ \cup {f}]
    /\ UNCHANGED PlOthers

Finish ==
    /\ pl.stage = "building"
    /\ pl.built = PlFiles
    /\ pl' = [pl EXCEPT !.stage = "done"]
    /\ UNCHANGED PlOthers

(***************************************************************************)
(* The file systems of the builder specification.                          *)
(***************************************************************************)
\* a imports b and c, b imports c publicly; d2 holds another b, which does
\* not validate, and c.
WorldDiamond ==
    [d1 |-> [EmptyDir EXCEPT
                !["a"] = File(<<Import("b", "normal"), Import("c", "normal")>>, "none"),
                !["b"] = File(<<Import("c", "public")>>, "none")],
     d2 |-> [EmptyDir EXCEPT
                !["b"] = File(<<Import("c", "normal")>>, "invalid"),
                !["c"] = File(<<>>, "none")]]

\* a and b import each other; c imports a file that exists nowhere.
WorldCycle ==
    [d1 |-> [EmptyDir EXCEPT
                !["a"] = File(<<Import("b", "normal")>>, "none"),
                !["b"] = File(<<Import("a", "public")>>, "none")],
     d2 |-> [EmptyDir EXCEPT
                !["b"] = File(<<Import("m", "weak")>>, "none"),
                !["c"] = File(<<Import("m", "normal")>>, "none")]]

\* a has a syntax error; b has a reference that does not resolve.
WorldDefects ==
    [d1 |-> [EmptyDir EXCEPT
                !["a"] = File(<<>>, "syntax")],
     d2 |-> [EmptyDir EXCEPT
                !["b"] = File(<<Import("c", "weak")>>, "none"),
                !["c"] = File(<<>>, "unresolved")]]

Worlds == {WorldDiamond, WorldCycle, WorldDefects}

Init ==
    /\ cg = CodegenNew
    /\ last_sel = "none"
    /\ incl_args = <<>>
    /\ input_args = <<>>
    /\ fs \in Worlds
    /\ run = RunIdle
    /\ bin = BinOff
    /\ rp = RpOff
    /\ pl = PlOff

Next ==
    \/ Pure
    \/ Protoc
    \/ OutDir
    \/ Include
    \/ Includes
    \/ Input
    \/ Inputs
    \/ ProtocPath
    \/ Customize
    \/ ExtraArg
    \/ RunParse
    \/ RunGen

Spec == Init /\ [][Next]_vars

(***************************************************************************)
(* The dependency specification: a Codegen object already configured by    *)
(* builder calls, over every file system of directory d1 that holds at     *)
(* most MaxImports import statements, and every order of the inputs.       *)
(***************************************************************************)
\* The resolver treats an import by whether its file is found and, when it
\* is not, by whether it is weak: each file is imported under one kind.
DepImports ==
    {Import("a", "normal"), Import("b", "public"), Import("c", "weak"),
     Import("m", "normal"), Import("m", "weak")}

NoImportsDir == [n \in ImportPaths |-> IF n \in Names THEN File(<<>>, "none") ELSE NoFile]

AddImport(d, n, imp) == [d EXCEPT ![n].imports = Append(@, imp)]

RECURSIVE DepDirs(_)
DepDirs(k) ==
    IF k = 0 THEN {NoImportsDir}
    ELSE LET prev == DepDirs(k - 1)
         IN  prev \cup {AddImport(d, n, imp) : d \in prev, n \in Names, imp \in DepImports}

DepWorlds == {[d1 |-> d, d2 |-> EmptyDir] : d \in DepDirs(MaxImports)}

DepInputs == DistinctSeqs({InputPath("d1", n) : n \in Names}, 1, MaxInputs)

InitDepsCodegen ==
    /\ \E w \in WhichParser, is \in DepInputs :
        /\ cg = [CodegenNew EXCEPT !.which_parser = w, !.includes = <<"d1">>,
                                   !.inputs = is]
        /\ last_sel = w
        /\ incl_args = <<"d1">>
        /\ input_args = is
    /\ run = RunIdle
    /\ bin = BinOff
    /\ rp = RpOff
    /\ pl = PlOff

InitDepsBin ==
    /\ cg = CodegenNew
    /\ last_sel = "none"
    /\ incl_args = <<>>
    /\ input_args = <<>>
    /\ run = RunOff
    /\ \E n \in Names : bin = BinStart(<<InputPath("d1", n), InputPath("d1", "")>>)
    /\ rp = RpOff
    /\ pl = PlOff

InitDeps ==
    /\ fs \in DepWorlds
    /\ (InitDepsCodegen \/ InitDepsBin)

NextDeps ==
    \/ RunParse
    \/ RunGen
    \/ MainCheck
    \/ MainParse

SpecDeps == InitDeps /\ [][NextDeps]_vars

(***************************************************************************)
(* The binary's specification: every argument list of up to MaxArgs        *)
(* paths.                                                                  *)
(***************************************************************************)
InitBin ==
    /\ cg = CodegenNew
    /\ last_sel = "none"
    /\ incl_args = <<>>
    /\ input_args = <<>>
    /\ fs \in Worlds
    /\ run = RunOff
    /\ \E args \in SeqsUpTo(BinArgs, MaxArgs) : bin = BinStart(args)
    /\ rp = RpOff
    /\ pl = PlOff

NextBin ==
    \/ MainCheck
    \/ MainParse

SpecBin == InitBin /\ [][NextBin]_vars

(***************************************************************************)
(* The import graph as the files declare it, for stating the properties.   *)
(***************************************************************************)
Content(f, files) == files[f[1]][f[2]]

\* The files that f's import statements resolve to.
Targets(f, includes, files) ==
    {<<ResolveDir(imp.path, includes, files), imp.path>> :
        imp \in {x \in Range(Content(f, files).imports) :
                    ResolveDir(x.path, includes, files) # NoDir}}

\* f has an import that is not weak and resolves to no file.
MissingImport(f, includes, files) ==
    \E imp \in Range(Content(f, files).imports) :
        imp.kind # "weak" /\ ResolveDir(imp.path, includes, files) = NoDir

RECURSIVE Closure(_, _, _)
Closure(S, includes, files) ==
    LET T == S \cup UNION {Targets(f, includes, files) : f \in S}
    IN  IF T = S THEN S ELSE Closure(T, includes, files)

OnCycle(f, includes, files) ==
    f \in Closure(Targets(f, includes, files), includes, files)

InputFiles(inputs) == {<<inputs[i].dir, inputs[i].name>> : i \in 1..Len(inputs)}

\* Some file that the inputs reach lies on an import cycle.
CycleReached(inputs, includes, files) ==
    \E f \in Closure(InputFiles(inputs), includes, files) : OnCycle(f, includes, files)

MissingReached(inputs, includes, files) ==
    \E f \in Closure(InputFiles(inputs), includes, files) : MissingImport(f, includes, files)

\* ds holds every input and every file the inputs reach, none of them with
\* a defect or a missing import.
CompleteSet(ds, c, files) ==
    /\ InputFiles(c.inputs) \subseteq Range(ds)
    /\ \A f \in Range(ds) :
        /\ Targets(f, c.includes, files) \subseteq Range(ds)
        /\ ~MissingImport(f, c.includes, files)
        /\ Content(f, files).defect = "none"

Returned == run.pc \in {"parsed", "done"}

(***************************************************************************)
(* C1.  The selected parser is Protoc when neither pure() nor protoc() was *)
(* ever called, otherwise the one the most recent of these calls named;    *)
(* run() invokes exactly one parse_and_typecheck path, the selected one.   *)
(***************************************************************************)
C1_SelectedParserInvoked ==
    /\ cg.which_parser = (IF last_sel = "none" THEN "Protoc" ELSE last_sel)
    /\ Returned => run.called = <<ParserPath(cg.which_parser)>>

C1_Witness ==
    /\ run.pc = "done"
    /\ last_sel = "Pure"
    /\ run.called = <<"pure">>
    /\ cg.protoc = "p1"

(***************************************************************************)
(* C2.  A run is all-or-nothing: when the parser fails, run() returns its  *)
(* error and the generator is never invoked and holds no descriptors; the  *)
(* generator is invoked only after the parser returned, with the complete  *)
(* descriptor sequence: every input, every file they import, none of them  *)
(* with a defect or a missing import.                                      *)
(***************************************************************************)
C2_AllOrNothing ==
    /\ (Returned /\ ~run.parse.ok) =>
          /\ run.pc = "done"
          /\ run.result = run.parse.err
          /\ run.result # "Ok"
          /\ ~run.gen.called
          /\ run.gen.descs = <<>>
    /\ run.pc = "parsed" => (run.parse.ok /\ ~run.gen.called /\ run.gen.descs = <<>>)
    /\ run.gen.called =>
          /\ run.parse.ok
          /\ run.gen.descs = run.parse.descs
          /\ CompleteSet(run.gen.descs, cg, fs)

\* The first input compiles on its own; the second one fails the run.
C2_Witness ==
    /\ run.pc = "done"
    /\ cg.which_parser = "Pure"
    /\ Len(cg.inputs) = 2
    /\ PureParseAndTypecheck(cg.includes, <<cg.inputs[1]>>, fs).ok
    /\ ~run.parse.ok
    /\ ~run.gen.called

(***************************************************************************)
(* C3.  In the descriptor sequence handed to the code generator every file *)
(* comes after all the files it imports, whatever the order of the inputs; *)
(* run() hands over the parser's sequence as it is.                        *)
(***************************************************************************)
C3_DependencyOrder ==
    run.gen.called =>
        /\ run.gen.descs = run.parse.descs
        /\ \A i \in 1..Len(run.gen.descs) :
             \A g \in Targets(run.gen.descs[i], cg.includes, fs) :
                \E j \in 1..(i - 1) : run.gen.descs[j] = g

\* The input listed first imports, through another file, the input listed
\* second, and is handed over last.
C3_Witness ==
    /\ run.gen.called
    /\ Len(cg.inputs) = 2
    /\ Len(run.gen.descs) = 3
    /\ run.gen.descs[3] = <<cg.inputs[1].dir, cg.inputs[1].name>>
    /\ run.gen.descs[1] = <<cg.inputs[2].dir, cg.inputs[2].name>>

(***************************************************************************)
(* C5.  The includes list is the concatenation of all include arguments in *)
(* call order, and the inputs list that of all input arguments: entries    *)
(* are appended, never reordered, deduplicated or dropped.                 *)
(***************************************************************************)
C5_AppendOnly ==
    /\ cg.includes = incl_args
    /\ cg.inputs = input_args

C5_Witness ==
    /\ incl_args = <<"d2", "d1">>
    /\ cg.includes = <<"d2", "d1">>
    /\ input_args = <<InputPath("d2", "b"), InputPath("d2", "b")>>
    /\ cg.inputs = input_args

C9_TwoArguments ==
    /\ bin.called =>
          /\ Len(bin.args) = 2
          /\ bin.parse_in = <<bin.args[1]>>
          /\ bin.parse_inc = <<bin.args[2]>>
    /\ (bin.pc \in {"checked", "exited"} /\ Len(bin.args) # 2) =>
          /\ bin.pc = "exited"
          /\ bin.code = 1
          /\ bin.stderr = <<"usage">>
          /\ ~bin.called
          /\ bin.stdout = <<>>
    /\ bin.asserted # "failed"

C9_Witness ==
    /\ bin.called
    /\ bin.asserted = "held"
    /\ bin.args = <<InputPath("d2", "b"), InputPath("d2", "")>>
    /\ bin.code = 0
    /\ bin.stdout # <<>>

(***************************************************************************)
(* The path specification: remove_path_prefix on every path of up to       *)
(* MaxPathLen characters and every prefix of up to MaxPrefixLen.           *)
(***************************************************************************)
InitPath ==
    /\ cg = CodegenNew
    /\ last_sel = "none"
    /\ incl_args = <<>>
    /\ input_args = <<>>
    /\ fs = WorldDiamond
    /\ run = RunOff
    /\ bin = BinOff
    /\ \E path \in SeqsUpTo(PathChars, MaxPathLen),
          prefix \in SeqsUpTo(PathChars, MaxPrefixLen) :
        rp = [pc |-> "call", path |-> path, prefix |-> prefix, result |-> None]
    /\ pl = PlOff

NextPath == RemovePathPrefixCall

SpecPath == InitPath /\ [][NextPath]_vars

\* The components as kinds and names, without their place in the text.
Shape(cs) == [i \in 1..Len(cs) |-> <<cs[i].kind, cs[i].text>>]

DropCurDir(cs) ==
    IF Len(cs) >= 1 /\ cs[1].kind = "CurDir" THEN Tail(cs) ELSE cs

Stripped(p) == Shape(DropCurDir(Components(p)))

LeadingRun(b, q) == Len(b) <= Len(q) /\ SubSeq(q, 1, Len(b)) = b

ResultOf(path, prefix) ==
    LET q == Stripped(path)
        b == Stripped(prefix)
    IN  IF LeadingRun(b, q) THEN [some |-> TRUE, comps |-> SubSeq(q, Len(b) + 1, Len(q))]
        ELSE [some |-> FALSE, comps |-> <<>>]

Observed(r) == [some |-> r.some, comps |-> Shape(Components(r.text))]

(***************************************************************************)
(* C6.  remove_path_prefix strips one leading "." component from each      *)
(* argument, then returns Some(remainder) exactly when the components of   *)
(* the prefix lead the components of the path, and None otherwise; a       *)
(* trailing slash on the prefix makes no difference, and the prefixes "."  *)
(* and "./" return the whole path.                                         *)
(***************************************************************************)
C6_RemovePathPrefix ==
    rp.pc = "ret" =>
        /\ Observed(rp.result) = ResultOf(rp.path, rp.prefix)
        /\ rp.prefix # <<>> =>
              Observed(RemovePathPrefix(rp.path, Append(rp.prefix, Sep)))
                  = Observed(rp.result)
        /\ rp.prefix \in {<<".">>, <<".", "/">>} =>
              /\ rp.result.some
              /\ Shape(Components(rp.result.text)) = Stripped(rp.path)

\* "./x/x" minus "x/" is "x".
C6_Witness ==
    /\ rp.pc = "ret"
    /\ rp.path = <<".", "/", "x", "/", "x">>
    /\ rp.prefix = <<"x", "/">>
    /\ rp.result = Some(<<"x">>)

\* The include directories the binary passed to the parser.
BinIncludes == [i \in 1..Len(bin.parse_inc) |-> AsDir(bin.parse_inc[i])]

RunOnCycle ==
    /\ Returned
    /\ cg.which_parser = "Pure"
    /\ CycleReached(cg.inputs, cg.includes, fs)

MainOnCycle ==
    /\ bin.called
    /\ CycleReached(bin.parse_in, BinIncludes, fs)

InitPipeline ==
    /\ cg = CodegenNew
    /\ last_sel = "none"
    /\ incl_args = <<>>
    /\ input_args = <<>>
    /\ fs = WorldDiamond
    /\ run = RunOff
    /\ bin = BinOff
    /\ rp = RpOff
    /\ pl = PlStart

NextPipeline ==
    \/ \E f \in PlFiles : Lex(f)
    \/ \E f \in PlFiles : Parse(f)
    \/ StartBinding
    \/ \E f \in PlFiles : Declare(f)
    \/ \E f \in PlFiles : Resolve(f)
    \/ FinishBinding
    \/ \E f \in PlFiles : Validate(f)
    \/ StartBuilding
    \/ \E f \in PlFiles : Build(f)
    \/ Finish

SpecPipeline == InitPipeline /\ [][NextPipeline]_vars

\* No symbol is entered or resolved before every file is parsed; validation
\* and building come after the binder.
EveryFileParsed == \A f \in PlFiles : pl.task[f] = "parsed"

C8_Barrier ==
    /\ (pl.resolved # {} \/ pl.table # {}) => EveryFileParsed
    /\ pl.resolved # {} => pl.table = PlFiles
    /\ (pl.validated # {} \/ pl.built # {}) =>
          (BinderFinished(pl) \/ pl.stage = "failed") /\ pl.resolved = PlFiles
    /\ pl.built # {} => pl.validated = PlFiles

\* A step taken after the binder finished leaves the symbol table as it is.
C8_TableFrozen == BinderFinished(pl) => pl'.table = pl.table

(***************************************************************************)
(* C8.  Binding is a barrier: under every interleaving of the per-file     *)
(* tasks no symbol is resolved (and none is entered into the table) before *)
(* every file has finished parsing; validation and descriptor building     *)
(* start only after binding has completed; and the symbol table is not     *)
(* written once the binder has finished.                                   *)
(***************************************************************************)
C8_BindingIsBarrier == [](C8_Barrier) /\ [][C8_TableFrozen]_vars

C8_Witness ==
    /\ pl.stage = "done"
    /\ pl.built = PlFiles
    /\ pl.table = PlFiles

====
